---- MODULE Spec2Model ----
(***************************************************************************)
(* iNotePro: the ink engine (components/DrawingCanvas.tsx) and the part of *)
(* the host (App.tsx) that feeds it: the note list, the active note, the   *)
(* tool palette and the drawing-mode switch.                               *)
(*                                                                         *)
(* One action is one event handler together with the React render and the  *)
(* effects that the handler's state updates cause: handlers always read    *)
(* the props and state of the latest render, except the resize listener,   *)
(* which is registered once at mount (empty dependency list) and keeps the *)
(* redraw closure of the mount render.                                     *)
(*                                                                         *)
(* Pointer events reach the handlers with drawing enabled or not: the      *)
(* handlers test isDrawingEnabled themselves, a pointer that went down on  *)
(* the canvas keeps being delivered to it, and drawing mode can be         *)
(* switched off during a capture (the mode button under another pointer,   *)
(* or handleTranscribe's setIsDrawingMode(false) when its call resolves).  *)
(* The palette is reached the same way while a stylus is down.             *)
(*                                                                         *)
(* Numbers: pressure and opacity are in tenths (0.5 is 5, 1.0 is 10); a    *)
(* painted line width is in tenths of a unit (width 3 at pressure 0.5 is   *)
(* 15).                                                                    *)
(***************************************************************************)
EXTENDS Integers, Sequences, FiniteSets, TLC

VARIABLES
    noteStrokes,     \* App: notes[n].strokes, per note id
    activeNoteId,    \* App: activeNoteId (NoNote is null)
    isDrawingMode,   \* App: isDrawingMode, the canvas's isDrawingEnabled prop
    currentTool,     \* App: currentTool, the canvas's tool prop
    currentColor,    \* App: currentColor, the canvas's color prop
    currentSize,     \* App: currentSize, the canvas's strokeWidth prop
    isDrawing,       \* DrawingCanvas: the isDrawing state
    pointsRef,       \* DrawingCanvas: pointsRef.current
    mountStrokes,    \* DrawingCanvas: the strokes prop closed over by the resize listener
    canvasSize,      \* the canvas element's width (0 before it exists)
    surface,         \* the canvas's content: the paint operations since the last clearRect
    globalAlpha,     \* the 2d context's globalAlpha between handlers
    globalCompositeOperation, \* the 2d context's globalCompositeOperation between handlers
    lastEv,          \* history: the last event handled and what the engine held before it
    session,         \* history: the engagement sample and the accepted samples since
    engaged,         \* history: tool, color and width selected at the last accepted engagement
    redraws,         \* history: the calls of redraw the last handler and its effects made
    noteContent,     \* App: notes[n].content, per note id, as a sequence of pieces of text
    pending,         \* App: the handleTranscribe calls suspended at their await, oldest first
    settled,         \* history: the last remote call that settled and what came of it
    engagedPending,  \* history: a transcription was pending at the last accepted engagement
    engagedNote      \* history: the note that was active at the last accepted engagement

appVars    == <<noteStrokes, activeNoteId, isDrawingMode, currentTool, currentColor, currentSize>>
canvasVars == <<isDrawing, pointsRef, mountStrokes, canvasSize, surface, globalAlpha,
                globalCompositeOperation>>
histVars   == <<lastEv, session, engaged>>
aiVars     == <<noteContent, pending, settled>>
vars       == <<appVars, canvasVars, histVars, redraws, aiVars, engagedPending, engagedNote>>

(***************************************************************************)
(* Bounds of the model.                                                    *)
(***************************************************************************)
\* the most points held at once: those of all committed strokes and the buffer
MaxInk == 4
\* the most paint operations the surface holds between two clearRects
MaxPaints == MaxInk - 2
\* the most coalesced sub-events one move carries
MaxCoalesced == 2
\* the most pieces of text a note's content holds
MaxText == 3
\* the most transcription calls pending at once
MaxPending == 2

(***************************************************************************)
(* Types and program constants.                                            *)
(***************************************************************************)
ToolType == {"pen", "pencil", "highlighter", "eraser"}
PointerTypes == {"mouse", "pen", "touch"}
EndKinds == {"up", "cancel", "leave"}
PointerKinds == {"down", "move"} \cup EndKinds

NoNote == 0
NumNotes == 2
NoteIds == 1..NumNotes

\* pressure of an event whose device reports none
Unreported == -1
\* getCoalescedEvents missing on the native event
NoCoalesced == <<[unsupported |-> TRUE]>>

\* the canvas's bounding rectangle in client coordinates
CanvasRect == [left |-> 100, top |-> 50]

\* parent.clientWidth * devicePixelRatio: at mount, and at later resizes
InitialParentSize == 300
ParentSizes == {InitialParentSize, 400}

Colors == {"#000000", "#ff0000"}
InitialColor == "#000000"

\* INITIAL_NOTES' contents, by note id
InitialContent == <<"Milk Eggs Bread", "1. A fitness tracker for pets.">>

\* handleTranscribe's separator and transcribeHandwriting's two fixed texts
Separator == "\n\n"
CouldNotTranscribe == "Could not transcribe handwriting."
TranscriptionFailed == "Transcription failed. Please check your connection."

\* what ai.models.generateContent can come to: a response with text, a
\* response whose text is empty or missing, a thrown error
RemoteOutcomes ==
    { [kind |-> "response", text |-> "hello"],
      [kind |-> "response", text |-> ""],
      [kind |-> "error", text |-> ""] }

PenButtonSize == 3
PencilButtonSize == 2
HighlighterButtonSize == 20
EraserButtonSize == 30

(***************************************************************************)
(* Pure functions of DrawingCanvas.tsx.                                    *)
(***************************************************************************)
\* getCoordinates: client coordinates to surface-local ones, pressure 0.5 when unreported
getCoordinates(e) ==
    [x |-> e.clientX - CanvasRect.left,
     y |-> e.clientY - CanvasRect.top,
     pressure |-> IF e.pressure # Unreported THEN e.pressure ELSE 5]

\* JavaScript's (v || d) on a number: 0 is falsy
OrDefault(v, d) == IF v = 0 THEN d ELSE v

\* the width handlePointerUp and redraw give the stroke they build
EffectiveWidth(tool, strokeWidth) ==
    IF tool = "highlighter" /\ strokeWidth < 10 THEN 20
    ELSE IF tool = "eraser" /\ strokeWidth < 10 THEN 30
    ELSE strokeWidth

\* the stroke handlePointerUp builds from the props and the buffer
NewStroke(tool, color, strokeWidth, points) ==
    [tool |-> tool, color |-> color,
     width |-> EffectiveWidth(tool, strokeWidth), points |-> points]

\* the 2d context right after canvas.width is set: empty, default state
BlankCtx == [surface |-> <<>>, alpha |-> 10, comp |-> "source-over", clears |-> 0]

\* mutant of drawStroke: opacity and compositing mode are not reset at the end
drawStroke_noReset(ctx, stroke) ==
    IF Len(stroke.points) < 2 THEN ctx
    ELSE
      LET alpha == CASE stroke.tool = "highlighter" -> 3
                     [] stroke.tool = "eraser" -> ctx.alpha
                     [] stroke.tool = "pencil" -> 8
                     [] OTHER -> 10
          comp == IF stroke.tool = "eraser" THEN "destination-out" ELSE ctx.comp
      IN [surface |-> Append(ctx.surface,
                         [pts |-> stroke.points, color |-> stroke.color,
                          alpha |-> alpha, comp |-> comp,
                          lineWidth |-> OrDefault(stroke.width, 3) * 10]),
          alpha |-> alpha, comp |-> comp, clears |-> ctx.clears]

\* drawStroke: one path for the whole stroke, stroked once with the line width
\* that is current at ctx.stroke(), then the context is reset
drawStroke(ctx, stroke) ==
    IF Len(stroke.points) < 2 THEN ctx
    ELSE
      LET last == stroke.points[Len(stroke.points)]
          alpha == CASE stroke.tool = "highlighter" -> 3
                     [] stroke.tool = "eraser" -> ctx.alpha
                     [] stroke.tool = "pencil" -> 8
                     [] OTHER -> 10
          comp == IF stroke.tool = "eraser" THEN "destination-out" ELSE ctx.comp
          lineWidth ==
               CASE stroke.tool = "highlighter" -> OrDefault(stroke.width, 20) * 10
                 [] stroke.tool = "eraser" -> OrDefault(stroke.width, 30) * 10
                 [] stroke.tool = "pencil" -> OrDefault(stroke.width, 2) * 10
                 [] OTHER -> IF stroke.tool = "pen"
                             THEN OrDefault(stroke.width, 3) * OrDefault(last.pressure, 10)
                             ELSE OrDefault(stroke.width, 3) * 10
      IN [surface |-> Append(ctx.surface,
                         [pts |-> stroke.points, color |-> stroke.color,
                          alpha |-> alpha, comp |-> comp, lineWidth |-> lineWidth]),
          alpha |-> 10, comp |-> "source-over", clears |-> ctx.clears]

\* strokes.forEach(stroke => drawStroke(ctx, stroke))
RECURSIVE drawAll(_, _)
drawAll(ctx, strokes) ==
    IF strokes = <<>> THEN ctx
    ELSE drawAll(drawStroke(ctx, Head(strokes)), Tail(strokes))

\* mutant of redraw: the surface is not cleared first
redraw_noClear(ctx, strokes, drawing, points, tool, color, strokeWidth) ==
    LET cleared == [ctx EXCEPT !.clears = @ + 1]
        painted == drawAll(cleared, strokes)
    IN IF drawing /\ Len(points) > 1
       THEN drawStroke(painted, NewStroke(tool, color, strokeWidth, points))
       ELSE painted

\* redraw, with the props and state of the render whose closure it is
redraw(ctx, strokes, drawing, points, tool, color, strokeWidth) ==
    LET cleared == [ctx EXCEPT !.surface = <<>>, !.clears = @ + 1]
        painted == drawAll(cleared, strokes)
    IN IF drawing /\ Len(points) > 1
       THEN drawStroke(painted, NewStroke(tool, color, strokeWidth, points))
       ELSE painted

\* mutant of paintSegment: the surface is cleared before the segment is painted
paintSegment_clearing(ctx, lastPoint, point, tool, color, strokeWidth) ==
    [surface |-> <<[pts |-> <<lastPoint, point>>, color |-> color,
                    alpha |-> 10, comp |-> "source-over",
                    lineWidth |-> strokeWidth * OrDefault(point.pressure, 10)]>>,
     alpha |-> 10, comp |-> "source-over", clears |-> ctx.clears]

\* handlePointerMove's immediate paint of the segment lastPoint -> point
paintSegment(ctx, lastPoint, point, tool, color, strokeWidth) ==
    LET alpha == CASE tool = "highlighter" -> 3
                   [] tool = "eraser" -> ctx.alpha
                   [] tool = "pencil" -> 8
                   [] OTHER -> 10
        comp == IF tool = "eraser" THEN "destination-out" ELSE ctx.comp
        lineWidth == CASE tool = "highlighter" -> 20 * 10
                       [] tool = "eraser" -> 30 * 10
                       [] tool = "pencil" -> 2 * 10
                       [] OTHER -> strokeWidth * OrDefault(point.pressure, 10)
    IN [surface |-> Append(ctx.surface,
                       [pts |-> <<lastPoint, point>>, color |-> color,
                        alpha |-> alpha, comp |-> comp, lineWidth |-> lineWidth]),
        alpha |-> 10, comp |-> "source-over", clears |-> ctx.clears]

\* mutant of consume: only the latest sample of the batch is taken
consume_latestOnly(st, events, tool, color, strokeWidth) ==
    IF events = <<>> THEN st
    ELSE
      LET point == getCoordinates(events[Len(events)])
          n == Len(st.points)
          ctx1 == IF n > 0
                  THEN paintSegment(st.ctx, st.points[n], point, tool, color, strokeWidth)
                  ELSE st.ctx
      IN [points |-> Append(st.points, point), ctx |-> ctx1]

\* the loop of handlePointerMove over the events of one move: each sample is
\* pushed to the buffer and, when a previous point exists, its segment painted
RECURSIVE consume(_, _, _, _, _)
consume(st, events, tool, color, strokeWidth) ==
    IF events = <<>> THEN st
    ELSE
      LET point == getCoordinates(Head(events))
          n == Len(st.points)
          ctx1 == IF n > 0
                  THEN paintSegment(st.ctx, st.points[n], point, tool, color, strokeWidth)
                  ELSE st.ctx
      IN consume([points |-> Append(st.points, point), ctx |-> ctx1],
                 Tail(events), tool, color, strokeWidth)

\* (e.nativeEvent as any).getCoalescedEvents?.() || [e]: an empty list is truthy
eventsOf(e, coalesced) == IF coalesced = NoCoalesced THEN <<e>> ELSE coalesced

(***************************************************************************)
(* geminiService.ts.                                                       *)
(***************************************************************************)
\* mutant of transcribeHandwriting: the error is not caught
transcribeHandwriting_noCatch(outcome) ==
    IF outcome.kind = "error"
    THEN [rejected |-> TRUE, text |-> ""]
    ELSE [rejected |-> FALSE,
          text |-> IF outcome.text = "" THEN CouldNotTranscribe ELSE outcome.text]

\* transcribeHandwriting, by the outcome of the remote call: how its promise
\* settles. try { return response.text || fixed } catch { return fixed }
transcribeHandwriting(outcome) ==
    IF outcome.kind = "error"
    THEN [rejected |-> FALSE, text |-> TranscriptionFailed]
    ELSE [rejected |-> FALSE,
          text |-> IF outcome.text = "" THEN CouldNotTranscribe ELSE outcome.text]

(***************************************************************************)
(* The state the handlers read.                                            *)
(***************************************************************************)
\* <DrawingCanvas> is rendered only while an active note exists
Mounted == activeNoteId # NoNote

\* the strokes prop: activeNote.strokes
strokes == noteStrokes[activeNoteId]

\* the 2d context as the next handler finds it
\* the 2d context as the next handler finds it (clears counts the clearRect
\* calls of the handler)
Ctx == [surface |-> surface, alpha |-> globalAlpha, comp |-> globalCompositeOperation,
        clears |-> 0]

SetCtx(ctx) ==
    /\ surface' = ctx.surface
    /\ globalAlpha' = ctx.alpha
    /\ globalCompositeOperation' = ctx.comp
    /\ redraws' = ctx.clears

\* a handler that leaves the canvas alone
SameCtx ==
    /\ UNCHANGED <<surface, globalAlpha, globalCompositeOperation>>
    /\ redraws' = 0

RECURSIVE PointCount(_)
PointCount(list) ==
    IF list = <<>> THEN 0 ELSE Len(Head(list).points) + PointCount(Tail(list))

RECURSIVE InkIn(_, _)
InkIn(f, S) ==
    IF S = {} THEN 0
    ELSE LET n == CHOOSE m \in S : TRUE IN PointCount(f[n]) + InkIn(f, S \ {n})

\* the points of all committed strokes
InkUsed == InkIn(noteStrokes, NoteIds)

\* mutant of isTouch: the device class is not looked at
isTouch_never(e) == FALSE

\* e.pointerType === 'touch'
isTouch(e) == e.pointerType = "touch"

\* mutant of ShouldCommit: a single point is enough
ShouldCommit_anyPoint == isDrawing /\ isDrawingMode /\ Len(pointsRef) > 0

\* mutant of ShouldCommit: isDrawingEnabled is not looked at
ShouldCommit_ignoringMode == isDrawing /\ Len(pointsRef) > 1

\* handlePointerUp's condition for committing the buffer
ShouldCommit == isDrawing /\ isDrawingMode /\ Len(pointsRef) > 1

\* handlePointerUp's last two statements: setIsDrawing(false) and
\* pointsRef.current = []
CapturingAfterEnd == FALSE

\* mutant of BufferAfterEnd: the buffer is left as it is
BufferAfterEnd_kept == pointsRef

BufferAfterEnd == <<>>

\* mutant of WithNewStroke: the stroke is appended twice
WithNewStroke_twice(list, stroke) == Append(Append(list, stroke), stroke)

\* mutant of WithNewStroke: the new stroke is put first
WithNewStroke_prepend(list, stroke) == <<stroke>> \o list

\* [...strokes, newStroke]
WithNewStroke(list, stroke) == Append(list, stroke)

\* mutant of ClearedStrokes: only the newest stroke is removed
ClearedStrokes_dropLast(list) ==
    IF list = <<>> THEN <<>> ELSE SubSeq(list, 1, Len(list) - 1)

\* clear's argument to onStrokesChange, given the list it replaces
ClearedStrokes(list) == <<>>

\* handleUpdateNote(id, { strokes }): the note's list is replaced, the other
\* notes are kept
handleUpdateNote(id, newStrokes) == [noteStrokes EXCEPT ![id] = newStrokes]

\* handleUpdateNote(id, { content }): the note's content is replaced; its
\* strokes and the other notes are kept
handleUpdateContent(id, content) == [noteContent EXCEPT ![id] = content]

\* the size each tool button selects, and the slider's range for a tool
ButtonSize(tool) ==
    CASE tool = "pen" -> PenButtonSize
      [] tool = "pencil" -> PencilButtonSize
      [] tool = "highlighter" -> HighlighterButtonSize
      [] tool = "eraser" -> EraserButtonSize

SliderMax(tool) == IF tool = "highlighter" \/ tool = "eraser" THEN 60 ELSE 20

(***************************************************************************)
(* History variables.                                                      *)
(***************************************************************************)
\* engaged, while no session is open
NoConfig == [tool |-> "none", color |-> "none", width |-> 0]

\* the record of an event: its kind and device class and, for an end event,
\* what the engine held when it arrived (for clear(), the list's length)
Ev(kind, ptype) ==
    [kind |-> kind, ptype |-> ptype,
     wasDrawing |-> kind \in EndKinds /\ isDrawing,
     nPts |-> IF kind \in EndKinds THEN Len(pointsRef) ELSE 0,
     coalescedMoves |-> IF kind \in EndKinds
                 THEN Cardinality({i \in 1..Len(session) : Len(session[i]) > 1})
                 ELSE 0,
     nStrokes |-> IF kind \in EndKinds \cup {"clear"} /\ Mounted
                  THEN Len(strokes) ELSE 0]

\* settled, while no remote call has settled
NoCall == [note |-> NoNote, outcome |-> "none", rejected |-> FALSE, text |-> "",
           appended |-> FALSE]

\* which events take part in drawing: mouse or stylus, drawing enabled
Accepted(e) == e.pointerType # "touch" /\ isDrawingMode

\* the samples one move event carries, as points
Samples(e, coalesced) ==
    LET carried == IF coalesced = NoCoalesced THEN <<e>> ELSE coalesced
    IN [i \in 1..Len(carried) |-> getCoordinates(carried[i])]

\* the points of a session: its batches (the engagement sample, then the
\* samples of each accepted move) in arrival order
RECURSIVE Flatten(_)
Flatten(batches) ==
    IF batches = <<>> THEN <<>> ELSE Head(batches) \o Flatten(Tail(batches))

(***************************************************************************)
(* Init: App's useState initial values; no note is open, no canvas exists. *)
(***************************************************************************)
Init ==
    /\ noteStrokes = [n \in NoteIds |-> <<>>]
    /\ activeNoteId = NoNote
    /\ isDrawingMode = FALSE
    /\ currentTool = "pen"
    /\ currentColor = InitialColor
    /\ currentSize = PenButtonSize
    /\ isDrawing = FALSE
    /\ pointsRef = <<>>
    /\ mountStrokes = <<>>
    /\ canvasSize = 0
    /\ surface = <<>>
    /\ globalAlpha = 10
    /\ globalCompositeOperation = "source-over"
    /\ lastEv = [kind |-> "init", ptype |-> "none", wasDrawing |-> FALSE,
                 nPts |-> 0, coalescedMoves |-> 0, nStrokes |-> 0]
    /\ session = <<>>
    /\ engaged = NoConfig
    /\ redraws = 0
    /\ noteContent = [n \in NoteIds |-> <<InitialContent[n]>>]
    /\ pending = <<>>
    /\ settled = NoCall
    /\ engagedPending = FALSE
    /\ engagedNote = NoNote

(***************************************************************************)
(* App.tsx: the host's handlers.                                           *)
(***************************************************************************)
\* the note list's onClick: setActiveNoteId(note.id). From no note the canvas
\* mounts (resize effect, then the strokes effect); from another note the same
\* canvas instance gets the other note's strokes and the strokes effect runs;
\* setting the id it already has changes no state and renders nothing
SelectNote(n) ==
    /\ activeNoteId # n
    /\ lastEv' = Ev("select", "none")
    /\ activeNoteId' = n
    /\ UNCHANGED <<noteStrokes, isDrawingMode, currentTool, currentColor, currentSize>>
    /\ UNCHANGED <<session, engaged, aiVars, engagedPending, engagedNote>>
    /\ IF activeNoteId = NoNote
       THEN /\ isDrawing' = FALSE
            /\ pointsRef' = <<>>
            /\ mountStrokes' = noteStrokes[n]
            /\ canvasSize' = InitialParentSize
            /\ SetCtx(redraw(redraw(BlankCtx, noteStrokes[n], FALSE, <<>>,
                                    currentTool, currentColor, currentSize),
                             noteStrokes[n], FALSE, <<>>,
                             currentTool, currentColor, currentSize))
       ELSE /\ UNCHANGED <<isDrawing, pointsRef, mountStrokes, canvasSize>>
            /\ SetCtx(redraw(Ctx, noteStrokes[n], isDrawing, pointsRef,
                             currentTool, currentColor, currentSize))

\* the drawing-mode button: setIsDrawingMode(!isDrawingMode)
ToggleDrawingMode ==
    /\ lastEv' = Ev("toggle", "none")
    /\ isDrawingMode' = ~isDrawingMode
    /\ UNCHANGED <<noteStrokes, activeNoteId, currentTool, currentColor, currentSize>>
    /\ UNCHANGED <<canvasVars, session, engaged, aiVars, engagedPending, engagedNote>>
    /\ redraws' = 0

\* a tool button of the palette (rendered in drawing mode only)
SetTool(tool) ==
    /\ isDrawingMode
    /\ lastEv' = Ev("tool", "none")
    /\ currentTool' = tool
    /\ currentSize' = ButtonSize(tool)
    /\ UNCHANGED <<noteStrokes, activeNoteId, isDrawingMode, currentColor>>
    /\ UNCHANGED <<canvasVars, session, engaged, aiVars, engagedPending, engagedNote>>
    /\ redraws' = 0

\* the size slider: min 1, max 20 or 60 by tool
SetSize(size) ==
    /\ isDrawingMode
    /\ size >= 1 /\ size <= SliderMax(currentTool)
    /\ lastEv' = Ev("size", "none")
    /\ currentSize' = size
    /\ UNCHANGED <<noteStrokes, activeNoteId, isDrawingMode, currentTool, currentColor>>
    /\ UNCHANGED <<canvasVars, session, engaged, aiVars, engagedPending, engagedNote>>
    /\ redraws' = 0

\* the color input
SetColor(color) ==
    /\ isDrawingMode
    /\ lastEv' = Ev("color", "none")
    /\ currentColor' = color
    /\ UNCHANGED <<noteStrokes, activeNoteId, isDrawingMode, currentTool, currentSize>>
    /\ UNCHANGED <<canvasVars, session, engaged, aiVars, engagedPending, engagedNote>>
    /\ redraws' = 0

\* the textarea's onChange: handleUpdateNote(activeNote.id, { content:
\* e.target.value }), the user having typed one more piece of text. The
\* textarea is read-only, and takes no pointer, in drawing mode
EditContent(typed) ==
    /\ Mounted
    /\ ~isDrawingMode
    /\ Len(noteContent[activeNoteId]) < MaxText
    /\ lastEv' = Ev("edit", "none")
    /\ noteContent' = handleUpdateContent(activeNoteId,
                                          Append(noteContent[activeNoteId], typed))
    /\ UNCHANGED <<appVars, canvasVars, session, engaged, pending, settled,
                   engagedPending, engagedNote>>
    /\ redraws' = 0

\* the Transcribe button, up to the await: handleTranscribe returns at once
\* without a canvas or an active note; otherwise it takes the raster and
\* starts the remote call, keeping the activeNote of its render
TranscribeStart ==
    /\ Mounted
    /\ Len(pending) < MaxPending
    /\ Len(noteContent[activeNoteId]) + 2 <= MaxText
    /\ lastEv' = Ev("transcribe", "none")
    /\ pending' = Append(pending, [note |-> activeNoteId,
                                   content |-> noteContent[activeNoteId]])
    /\ UNCHANGED <<appVars, canvasVars, session, engaged, noteContent, settled,
                   engagedPending, engagedNote>>
    /\ redraws' = 0

\* the remote call of the i-th pending handleTranscribe settles with outcome,
\* and the handler runs on from its await: the text is appended to the
\* content the handler's render had, and drawing mode is switched off. A
\* rejected promise ends the handler at the await
TranscribeSettle(i, outcome) ==
    /\ lastEv' = Ev("settle", "none")
    /\ pending' = SubSeq(pending, 1, i - 1) \o SubSeq(pending, i + 1, Len(pending))
    /\ LET call == pending[i]
           result == transcribeHandwriting(outcome)
       IN /\ settled' = [note |-> call.note, outcome |-> outcome.kind,
                         rejected |-> result.rejected, text |-> result.text,
                         appended |-> ~result.rejected]
          /\ IF result.rejected
             THEN UNCHANGED <<noteContent, isDrawingMode>>
             ELSE /\ noteContent' = handleUpdateContent(call.note,
                                        call.content \o <<Separator, result.text>>)
                  /\ isDrawingMode' = FALSE
    /\ UNCHANGED <<noteStrokes, activeNoteId, currentTool, currentColor, currentSize>>
    /\ UNCHANGED <<canvasVars, session, engaged, engagedPending, engagedNote>>
    /\ redraws' = 0

(***************************************************************************)
(* DrawingCanvas.tsx: the engine's handlers.                               *)
(***************************************************************************)
\* the Clear button: canvasRef.current?.clear(), which is onStrokesChange([]);
\* the new list re-renders the canvas and the strokes effect repaints
Clear ==
    /\ isDrawingMode
    /\ lastEv' = Ev("clear", "none")
    /\ UNCHANGED <<activeNoteId, isDrawingMode, currentTool, currentColor, currentSize>>
    /\ UNCHANGED <<isDrawing, pointsRef, mountStrokes, canvasSize, session, engaged>>
    /\ UNCHANGED <<aiVars, engagedPending, engagedNote>>
    /\ IF Mounted
       THEN /\ noteStrokes' = handleUpdateNote(activeNoteId, ClearedStrokes(strokes))
            /\ SetCtx(redraw(Ctx, noteStrokes'[activeNoteId], isDrawing, pointsRef,
                             currentTool, currentColor, currentSize))
       ELSE UNCHANGED noteStrokes /\ SameCtx

\* mutant of Resize: the listener repaints twice
Resize_twice(size) ==
    /\ Mounted
    /\ lastEv' = Ev("resize", IF size = canvasSize THEN "same" ELSE "other")
    /\ canvasSize' = size
    /\ SetCtx(redraw(redraw(BlankCtx, mountStrokes, FALSE, pointsRef,
                            currentTool, currentColor, currentSize),
                     mountStrokes, FALSE, pointsRef,
                     currentTool, currentColor, currentSize))
    /\ UNCHANGED <<appVars, isDrawing, pointsRef, mountStrokes, session, engaged>>
    /\ UNCHANGED <<aiVars, engagedPending, engagedNote>>

\* the window's resize listener, registered by the mount render's effect: the
\* canvas's width is assigned, the parent's having become size (an assignment
\* empties the canvas and resets the context even when the value is the one
\* it has), and the mount render's redraw runs, with the strokes and the
\* isDrawing = false of that render. The event's record tells whether the
\* size is the one the canvas had
Resize(size) ==
    /\ Mounted
    /\ lastEv' = Ev("resize", IF size = canvasSize THEN "same" ELSE "other")
    /\ canvasSize' = size
    /\ SetCtx(redraw(BlankCtx, mountStrokes, FALSE, pointsRef,
                     currentTool, currentColor, currentSize))
    /\ UNCHANGED <<appVars, isDrawing, pointsRef, mountStrokes, session, engaged>>
    /\ UNCHANGED <<aiVars, engagedPending, engagedNote>>

\* onPointerDown. An accepted engagement needs room for one more point
\* (MaxInk)
handlePointerDown(e) ==
    /\ Mounted
    /\ lastEv' = Ev("down", e.pointerType)
    /\ UNCHANGED <<appVars, mountStrokes, canvasSize, aiVars>>
    /\ SameCtx
    /\ IF ~isDrawingMode \/ isTouch(e)
       THEN UNCHANGED <<isDrawing, pointsRef>>
       ELSE /\ InkUsed + 1 <= MaxInk
            /\ isDrawing' = TRUE
            /\ pointsRef' = <<getCoordinates(e)>>
    /\ IF Accepted(e)
       THEN /\ session' = << <<getCoordinates(e)>> >>
            /\ engaged' = [tool |-> currentTool, color |-> currentColor,
                           width |-> currentSize]
            /\ engagedPending' = (pending # <<>>)
            /\ engagedNote' = activeNoteId
       ELSE UNCHANGED <<session, engaged, engagedPending, engagedNote>>

\* onPointerMove; coalesced is what getCoalescedEvents returns (NoCoalesced
\* when the native event has no such method). Accepted samples need room in
\* the buffer (MaxInk) and on the surface (MaxPaints)
handlePointerMove(e, coalesced) ==
    /\ Mounted
    /\ lastEv' = Ev("move", e.pointerType)
    /\ UNCHANGED <<appVars, isDrawing, mountStrokes, canvasSize, engaged>>
    /\ UNCHANGED <<aiVars, engagedPending, engagedNote>>
    /\ IF ~isDrawing \/ ~isDrawingMode \/ isTouch(e)
       THEN UNCHANGED pointsRef /\ SameCtx
       ELSE LET st == consume([points |-> pointsRef, ctx |-> Ctx],
                              eventsOf(e, coalesced),
                              currentTool, currentColor, currentSize)
            IN /\ InkUsed + Len(st.points) <= MaxInk
               /\ Len(st.ctx.surface) <= MaxPaints
               /\ pointsRef' = st.points
               /\ SetCtx(st.ctx)
    /\ IF Accepted(e) /\ session # <<>> /\ Samples(e, coalesced) # <<>>
       THEN session' = Append(session, Samples(e, coalesced))
       ELSE UNCHANGED session

\* onPointerUp, onPointerCancel and onPointerLeave are one handler. A commit
\* is onStrokesChange([...strokes, newStroke]), i.e. handleUpdateNote on the
\* active note; the new list re-renders the canvas with isDrawing false and
\* the strokes effect repaints
handlePointerUp(kind, e) ==
    /\ Mounted
    /\ lastEv' = Ev(kind, e.pointerType)
    /\ UNCHANGED <<activeNoteId, isDrawingMode, currentTool, currentColor, currentSize>>
    /\ UNCHANGED <<mountStrokes, canvasSize, aiVars>>
    /\ IF isTouch(e)
       THEN /\ UNCHANGED <<noteStrokes, isDrawing, pointsRef, session, engaged,
                           engagedPending, engagedNote>>
            /\ SameCtx
       ELSE /\ IF ShouldCommit
               THEN /\ noteStrokes' =
                         handleUpdateNote(activeNoteId,
                            WithNewStroke(strokes,
                                NewStroke(currentTool, currentColor,
                                          currentSize, pointsRef)))
                    /\ SetCtx(redraw(Ctx, noteStrokes'[activeNoteId], FALSE, <<>>,
                                     currentTool, currentColor, currentSize))
               ELSE UNCHANGED noteStrokes /\ SameCtx
            /\ isDrawing' = CapturingAfterEnd
            /\ pointsRef' = BufferAfterEnd
            /\ session' = <<>>
            /\ engaged' = NoConfig
            /\ engagedPending' = FALSE
            /\ engagedNote' = NoNote

(***************************************************************************)
(* The inputs of the model and the next-state relation.                    *)
(***************************************************************************)
\* raw pointer samples: client position and reported pressure
RawSamples ==
    { [clientX |-> 110, clientY |-> 60, pressure |-> 10],
      [clientX |-> 110, clientY |-> 70, pressure |-> Unreported] }

PointerEvent(ptype, raw) ==
    [pointerType |-> ptype, clientX |-> raw.clientX, clientY |-> raw.clientY,
     pressure |-> raw.pressure]

\* the handlers compare pointerType with 'touch' only: the stylus stands for
\* both accepted device classes
InkPointerTypes == {"pen", "touch"}

\* down and move events: every sample for the stylus, one for touch
PointerEvents ==
    { PointerEvent("pen", raw) : raw \in RawSamples } \cup
    { PointerEvent("touch", [clientX |-> 110, clientY |-> 60, pressure |-> 10]) }

\* up, cancel and leave events, whose position the handler never reads
EndEvents ==
    { PointerEvent(ptype, [clientX |-> 110, clientY |-> 60, pressure |-> 0]) :
        ptype \in InkPointerTypes }

\* one stylus sample, for the specifications that need no variety of points
StylusEvents ==
    { PointerEvent("pen", [clientX |-> 110, clientY |-> 60, pressure |-> 5]) }

RECURSIVE SeqsUpTo(_, _)
SeqsUpTo(S, n) ==
    IF n = 0 THEN {<<>>}
    ELSE LET shorter == SeqsUpTo(S, n - 1)
         IN shorter \cup { Append(q, x) : q \in shorter, x \in S }

\* what getCoalescedEvents can return for e: nothing (the method is missing),
\* an empty list (an untrusted event), or sub-events of the same pointer of
\* which e's own sample is the last
CoalescedOf(e) ==
    {NoCoalesced, <<>>} \cup
    { Append(q, e) :
        q \in SeqsUpTo({ c \in PointerEvents : c.pointerType = e.pointerType },
                       MaxCoalesced - 1) }

InkNotes == {1}

Next ==
    \/ \E n \in InkNotes : SelectNote(n)
    \/ ToggleDrawingMode
    \/ Clear
    \/ \E e \in PointerEvents : handlePointerDown(e)
    \/ \E e \in PointerEvents : \E coalesced \in CoalescedOf(e) :
          handlePointerMove(e, coalesced)
    \/ \E kind \in EndKinds : \E e \in EndEvents : handlePointerUp(kind, e)

Spec == Init /\ [][Next]_vars

(***************************************************************************)
(* The engine under window resizes: one stylus sample, no coalescing.      *)
(***************************************************************************)
NextResize ==
    \/ \E n \in InkNotes : SelectNote(n)
    \/ ToggleDrawingMode
    \/ Clear
    \/ \E size \in ParentSizes : Resize(size)
    \/ \E e \in StylusEvents : handlePointerDown(e)
    \/ \E e \in StylusEvents : handlePointerMove(e, NoCoalesced)
    \/ \E kind \in EndKinds : \E e \in StylusEvents : handlePointerUp(kind, e)

SpecResize == Init /\ [][NextResize]_vars

(***************************************************************************)
(* The engine under the tool palette: every tool, size and color, one      *)
(* stylus sample, no coalescing.                                           *)
(***************************************************************************)
\* slider positions: below 10, and between 10 and the highlighter's 20
SliderSizes == {5, 15}

\* the tool buttons pressed (the pen is selected at the start)
PaletteTools == {"highlighter", "eraser"}

NextPalette ==
    \/ \E n \in InkNotes : SelectNote(n)
    \/ ToggleDrawingMode
    \/ \E tool \in PaletteTools : SetTool(tool)
    \/ \E size \in SliderSizes : SetSize(size)
    \/ \E color \in Colors : SetColor(color)
    \/ \E e \in StylusEvents : handlePointerDown(e)
    \/ \E e \in StylusEvents : handlePointerMove(e, NoCoalesced)
    \/ \E e \in StylusEvents : handlePointerUp("up", e)

SpecPalette == Init /\ [][NextPalette]_vars

(***************************************************************************)
(* The list changing under the canvas: two notes, clear(), two stylus      *)
(* samples, no coalescing.                                                 *)
(***************************************************************************)
PenEvents == { e \in PointerEvents : e.pointerType = "pen" }

NextRepaint ==
    \/ \E n \in NoteIds : SelectNote(n)
    \/ ToggleDrawingMode
    \/ Clear
    \/ \E e \in PenEvents : handlePointerDown(e)
    \/ \E e \in PenEvents : handlePointerMove(e, NoCoalesced)
    \/ \E e \in StylusEvents : handlePointerUp("up", e)

SpecRepaint == Init /\ [][NextRepaint]_vars

(***************************************************************************)
(* Every order of tools: the tool buttons, one stylus sample.              *)
(***************************************************************************)
NextTools ==
    \/ \E n \in InkNotes : SelectNote(n)
    \/ ToggleDrawingMode
    \/ \E tool \in PaletteTools : SetTool(tool)
    \/ Clear
    \/ \E e \in StylusEvents : handlePointerDown(e)
    \/ \E e \in StylusEvents : handlePointerMove(e, NoCoalesced)
    \/ \E e \in StylusEvents : handlePointerUp("up", e)

SpecTools == Init /\ [][NextTools]_vars

(***************************************************************************)
(* Transcription during ink capture: the mode button is used only to       *)
(* enter drawing mode, so that drawing is switched off by handleTranscribe *)
(* alone.                                                                  *)
(***************************************************************************)
\* the mode button, pressed to enter drawing mode
EnterDrawingMode == ~isDrawingMode /\ ToggleDrawingMode

NextTranscribe ==
    \/ \E n \in NoteIds : SelectNote(n)
    \/ EnterDrawingMode
    \/ TranscribeStart
    \/ \E i \in 1..Len(pending) : \E outcome \in RemoteOutcomes :
          TranscribeSettle(i, outcome)
    \/ \E e \in StylusEvents : handlePointerDown(e)
    \/ \E e \in StylusEvents : handlePointerMove(e, NoCoalesced)
    \/ \E e \in StylusEvents : handlePointerUp("up", e)

SpecTranscribe == Init /\ [][NextTranscribe]_vars

(***************************************************************************)
(* Transcription during text editing: no ink.                              *)
(***************************************************************************)
\* what the user types
TypedTexts == {"typed"}

NextContent ==
    \/ \E n \in NoteIds : SelectNote(n)
    \/ \E typed \in TypedTexts : EditContent(typed)
    \/ TranscribeStart
    \/ \E i \in 1..Len(pending) : \E outcome \in RemoteOutcomes :
          TranscribeSettle(i, outcome)

SpecContent == Init /\ [][NextContent]_vars

(***************************************************************************)
(* Two pointers on the canvas: a stylus and a mouse, each with one sample  *)
(* at a place of its own, so that a point tells the pointer it came from.  *)
(***************************************************************************)
MouseEvents ==
    { PointerEvent("mouse", [clientX |-> 210, clientY |-> 60, pressure |-> 5]) }

TwoPointerEvents == StylusEvents \cup MouseEvents

NextPointers ==
    \/ \E n \in InkNotes : SelectNote(n)
    \/ ToggleDrawingMode
    \/ \E e \in TwoPointerEvents : handlePointerDown(e)
    \/ \E e \in TwoPointerEvents : handlePointerMove(e, NoCoalesced)
    \/ \E kind \in {"up", "leave"} : \E e \in TwoPointerEvents :
          handlePointerUp(kind, e)

SpecPointers == Init /\ [][NextPointers]_vars

(***************************************************************************)
(* Properties.                                                             *)
(***************************************************************************)
\* the step appended a stroke to note n's list
Committed(n) == Len(noteStrokes'[n]) > Len(noteStrokes[n])
LastStroke(list) == list[Len(list)]

\* the last event was an end event that committed a stroke
JustCommitted ==
    /\ lastEv.kind \in EndKinds
    /\ Mounted
    /\ Len(strokes) = lastEv.nStrokes + 1

\* C1: a committed stroke's points are the engagement point followed by every
\* sample of every accepted move of its session, in arrival order, coalesced
\* sub-events included
C1_CommittedPointsAreSessionSamples ==
    [][\A n \in NoteIds :
          Committed(n) => LastStroke(noteStrokes'[n]).points = Flatten(session)]_vars

\* a release has just committed a stroke whose session had a move carrying
\* two coalesced samples that differ
C1_Witness ==
    /\ JustCommitted
    /\ lastEv.kind = "up"
    /\ Len(LastStroke(strokes).points) = 3
    /\ LastStroke(strokes).points[2] # LastStroke(strokes).points[3]
    /\ lastEv.coalescedMoves = 1

\* C2: every stroke of every committed list has at least 2 points, and an end
\* event (release, cancel, leave) that finds exactly 1 point in the buffer
\* leaves the committed lists unchanged
C2_NoStrokeUnderTwoPoints ==
    /\ [](\A n \in NoteIds : \A i \in 1..Len(noteStrokes[n]) :
             Len(noteStrokes[n][i].points) >= 2)
    /\ [][lastEv'.kind \in EndKinds /\ Len(pointsRef) = 1 =>
             noteStrokes' = noteStrokes]_vars

\* a stylus capture has just ended with exactly 1 point, drawing enabled
C2_Witness ==
    /\ lastEv.kind \in EndKinds
    /\ lastEv.ptype = "pen"
    /\ lastEv.wasDrawing
    /\ lastEv.nPts = 1
    /\ isDrawingMode

\* C3: a touch event of any kind never creates an in-progress stroke, never
\* appends a point to the buffer and never changes a committed list, with
\* drawing enabled or not
C3_TouchChangesNothing ==
    [][lastEv'.ptype = "touch" =>
          UNCHANGED <<noteStrokes, isDrawing, pointsRef>>]_vars

\* a touch release has arrived during an enabled capture that holds 2 points
C3_Witness ==
    /\ lastEv.ptype = "touch"
    /\ lastEv.kind = "up"
    /\ isDrawingMode
    /\ isDrawing
    /\ Len(pointsRef) >= 2

\* C4 as claimed: while drawing is disabled every pointer event leaves the
\* committed lists, the capturing flag and the buffer unchanged
C4_DisabledEventsChangeNothing ==
    [][lastEv'.kind \in PointerKinds /\ ~isDrawingMode =>
          UNCHANGED <<noteStrokes, isDrawing, pointsRef>>]_vars

\* C4 (amended): while drawing is disabled every pointer event leaves the
\* committed lists unchanged; down events, move events and touch events leave
\* the capturing flag and the buffer unchanged; an up, cancel or leave of a
\* mouse or stylus pointer ends the capture without a commit: the flag becomes
\* false and the buffer empty
C4_DisabledEventsCommitNothing ==
    [][lastEv'.kind \in PointerKinds /\ ~isDrawingMode =>
          /\ noteStrokes' = noteStrokes
          /\ IF lastEv'.kind \in EndKinds /\ lastEv'.ptype # "touch"
             THEN isDrawing' = FALSE /\ pointsRef' = <<>>
             ELSE UNCHANGED <<isDrawing, pointsRef>>]_vars

\* a stylus release has arrived, drawing disabled, during a capture of 2 points
C4_Witness ==
    /\ ~isDrawingMode
    /\ lastEv.kind = "up"
    /\ lastEv.ptype = "pen"
    /\ lastEv.wasDrawing
    /\ lastEv.nPts >= 2

\* C5 as claimed: the tool, color and width of a committed stroke are those
\* selected at the accepted engagement of its session, after the width
\* substitution
C5_StrokeKeepsEngagementConfig ==
    [][\A n \in NoteIds :
          Committed(n) =>
             LET stroke == LastStroke(noteStrokes'[n])
             IN /\ stroke.tool = engaged.tool
                /\ stroke.color = engaged.color
                /\ stroke.width = EffectiveWidth(engaged.tool, engaged.width)]_vars

\* the width the specification gives a stroke of a tool at configured width w
SpecifiedWidth(tool, w) ==
    IF tool = "highlighter" /\ w < 20 THEN 20
    ELSE IF tool = "eraser" /\ w < 30 THEN 30
    ELSE w

\* C6 as claimed: a committed highlighter stroke has width 20 when the
\* configured width is below 20, a committed eraser stroke width 30 when it
\* is below 30, and the configured width otherwise
C6_WidthBelowMinimumIsSubstituted ==
    [][\A n \in NoteIds :
          Committed(n) =>
             LET stroke == LastStroke(noteStrokes'[n])
             IN stroke.width = SpecifiedWidth(stroke.tool, currentSize)]_vars

\* C7 as claimed: a cancel event leaves the committed lists as they were,
\* whatever the number of points captured
C7_CancelDiscards ==
    [][lastEv'.kind = "cancel" => noteStrokes' = noteStrokes]_vars

\* C8: a step that is not clear() leaves every committed list unchanged or,
\* being an end event, appends one stroke at the end of the active note's
\* list, the strokes before it unchanged and in the same order
C8_CommitAppendsAtTheEnd ==
    [][lastEv'.kind # "clear" =>
          \A n \in NoteIds :
             \/ noteStrokes'[n] = noteStrokes[n]
             \/ /\ lastEv'.kind \in EndKinds
                /\ n = activeNoteId
                /\ Len(noteStrokes'[n]) = Len(noteStrokes[n]) + 1
                /\ SubSeq(noteStrokes'[n], 1, Len(noteStrokes[n])) = noteStrokes[n]]_vars

\* a second stroke, different from the first, has just been committed
C8_Witness ==
    /\ JustCommitted
    /\ Len(strokes) = 2
    /\ strokes[1] # strokes[2]

\* C9: after clear() the active note's committed list is empty
C9_ClearEmptiesTheList ==
    lastEv.kind = "clear" /\ Mounted => strokes = <<>>

\* clear() has been called with 2 committed strokes present
C9_Witness ==
    /\ lastEv.kind = "clear"
    /\ Mounted
    /\ lastEv.nStrokes >= 2

\* C10 as claimed: after a resize notification the surface shows the committed
\* strokes of the current list in order, then the in-progress stroke if a
\* capture with at least 2 points is active
C10_ResizeRepaintsCurrentStrokes ==
    lastEv.kind = "resize" =>
       surface = redraw(BlankCtx, strokes, isDrawing, pointsRef,
                        currentTool, currentColor, currentSize).surface

\* the surface holds one path per stroke of the active note's list, in list
\* order, and after them the in-progress stroke when the engine is capturing
\* with at least 2 points
ShowsList ==
    LET inProgress == isDrawing /\ Len(pointsRef) >= 2
    IN /\ Len(surface) = Len(strokes) + (IF inProgress THEN 1 ELSE 0)
       /\ \A i \in 1..Len(strokes) :
             /\ i <= Len(surface)
             /\ surface[i].pts = strokes[i].points
             /\ surface[i].color = strokes[i].color
       /\ inProgress => surface[Len(surface)].pts = pointsRef

\* the step gave the canvas another list: a commit, clear(), or the host
\* showing another note
ListChanged ==
    /\ activeNoteId' # NoNote
    /\ \/ activeNoteId' # activeNoteId
       \/ noteStrokes'[activeNoteId'] # noteStrokes[activeNoteId']
       \/ lastEv'.kind = "clear"

\* C11: whenever the canvas's committed list changes, a full repaint runs in
\* the same step, after which the surface holds exactly one path per stroke
\* of the new list, in list order, followed by the in-progress stroke when
\* one with at least 2 points exists
C11_ListChangeRepaintsAll ==
    [][ListChanged => redraws' >= 1 /\ ShowsList']_vars

\* the host has shown another note, which has a committed stroke, during a
\* capture that holds 2 points: the stroke is painted, then the capture
C11_Witness ==
    /\ lastEv.kind = "select"
    /\ isDrawing
    /\ Len(pointsRef) >= 2
    /\ Len(strokes) >= 1
    /\ Len(surface) = Len(strokes) + 1
    /\ surface[Len(surface)].pts = pointsRef

\* C12: a resize notification, the size being new or the one the canvas has,
\* runs exactly one full repaint and leaves every committed list and the
\* in-progress buffer unchanged
C12_ResizeRepaintsOnceKeepsData ==
    [][lastEv'.kind = "resize" =>
          /\ redraws' = 1
          /\ UNCHANGED <<noteStrokes, pointsRef>>]_vars

\* a resize to the size the canvas already had has arrived during a capture of
\* 2 points, a stroke being committed
C12_Witness ==
    /\ lastEv.kind = "resize"
    /\ lastEv.ptype = "same"
    /\ redraws = 1
    /\ isDrawing
    /\ Len(pointsRef) >= 2
    /\ Len(strokes) >= 1

\* C13: whatever the remote call comes to, transcribeHandwriting's promise is
\* fulfilled with a non-empty text, which after a thrown error is the fixed
\* failure text, and handleTranscribe goes on to append the separator and that
\* text to the note's content
C13_TranscribeAlwaysYieldsText ==
    [][lastEv'.kind = "settle" =>
          LET content == noteContent'[settled'.note]
          IN /\ ~settled'.rejected
             /\ settled'.text # ""
             /\ settled'.outcome = "error" => settled'.text = TranscriptionFailed
             /\ settled'.appended
             /\ Len(content) >= 2
             /\ SubSeq(content, Len(content) - 1, Len(content))
                   = <<Separator, settled'.text>>]_vars

\* a remote call has thrown and the failure text has been appended
C13_Witness ==
    /\ lastEv.kind = "settle"
    /\ settled.outcome = "error"
    /\ settled.appended
    /\ noteContent[settled.note][Len(noteContent[settled.note])] = TranscriptionFailed

\* C14: in every state an engine that is not capturing has an empty buffer;
\* every up, cancel or leave of a mouse or stylus pointer leaves the engine
\* idle with an empty buffer, a stroke having been committed or not; a move
\* event that finds the engine idle adds no point and paints nothing
C14_InProgressOnlyWhileCapturing ==
    /\ [](~isDrawing => pointsRef = <<>>)
    /\ [][lastEv'.kind \in EndKinds /\ lastEv'.ptype # "touch" =>
             ~isDrawing' /\ pointsRef' = <<>>]_vars
    /\ [][lastEv'.kind = "move" /\ ~isDrawing =>
             UNCHANGED <<pointsRef, surface>>]_vars

\* the stylus has left the surface during an enabled capture of 2 points or
\* more, and the engine is idle
C14_Witness ==
    /\ lastEv.kind = "leave"
    /\ lastEv.ptype = "pen"
    /\ lastEv.wasDrawing
    /\ lastEv.nPts >= 2
    /\ isDrawingMode
    /\ ~isDrawing
    /\ pointsRef = <<>>

\* C15: a step other than clear() that changes a committed list is an end
\* event of a session opened by an accepted engagement, and appends exactly
\* one stroke to one list; that end event closes the session, and an end
\* event that finds the engine idle changes no list. Down and move events
\* therefore never change a list, and no engagement is committed twice
C15_OneAppendPerEngagement ==
    /\ [][lastEv'.kind # "clear" /\ noteStrokes' # noteStrokes =>
             /\ lastEv'.kind \in EndKinds
             /\ session # <<>>
             /\ session' = <<>>
             /\ \E n \in NoteIds :
                   /\ Len(noteStrokes'[n]) = Len(noteStrokes[n]) + 1
                   /\ \A m \in NoteIds \ {n} : noteStrokes'[m] = noteStrokes[m]]_vars
    /\ [][lastEv'.kind \in EndKinds /\ ~isDrawing => noteStrokes' = noteStrokes]_vars

\* the stylus has left the surface, drawing enabled, after its stroke was
\* committed: the engine was idle and the list is as it was
C15_Witness ==
    /\ lastEv.kind = "leave"
    /\ lastEv.ptype = "pen"
    /\ ~lastEv.wasDrawing
    /\ isDrawingMode
    /\ Mounted
    /\ lastEv.nStrokes >= 1
    /\ Len(strokes) = lastEv.nStrokes

\* the tool, color and size selected are those of the last accepted engagement
ConfigAsEngaged ==
    engaged = [tool |-> currentTool, color |-> currentColor, width |-> currentSize]

\* C16 as claimed: when a stroke is committed, its tool, color and size being
\* those it was engaged with, each segment painted during its capture (the
\* last paints on the surface, one per point after the first) had the
\* opacity, the compositing mode and the line width with which the repaint
\* after the commit paints the stroke
C16_SegmentPaintEqualsRepaint ==
    [][\A n \in NoteIds :
          Committed(n) /\ ConfigAsEngaged /\ Len(surface) >= Len(pointsRef) - 1 =>
             LET k == Len(pointsRef) - 1
                 repaint == surface'[Len(surface')]
             IN \A j \in 1..k :
                   LET segment == surface[Len(surface) - k + j]
                   IN /\ segment.alpha = repaint.alpha
                      /\ segment.comp = repaint.comp
                      /\ segment.lineWidth = repaint.lineWidth]_vars

\* C17 as claimed: every path on the surface (a segment painted during a
\* capture, or a whole stroke painted by a repaint; the tool is the pen) has,
\* for each of its segments, the line width currentSize times the pressure of
\* the point the segment ends at
C17_PenWidthFollowsPressure ==
    \A i \in 1..Len(surface) :
       \A k \in 2..Len(surface[i].pts) :
          surface[i].lineWidth = currentSize * surface[i].pts[k].pressure

\* C18: a move event accepted during a capture appends one point per sample
\* it carries and one path per sample to the surface, the k-th from the point
\* before the k-th new point to that point; the paths that were on the
\* surface stay as they were, in place, and no repaint runs
C18_OneSegmentPerSample ==
    [][lastEv'.kind = "move" /\ lastEv'.ptype # "touch" /\ isDrawing /\ isDrawingMode =>
          LET n == Len(pointsRef') - Len(pointsRef)
              old == Len(pointsRef)
          IN /\ n = (IF session' # session THEN Len(session'[Len(session')]) ELSE 0)
             /\ Len(surface') = Len(surface) + n
             /\ SubSeq(surface', 1, Len(surface)) = surface
             /\ \A k \in 1..n :
                   surface'[Len(surface) + k].pts =
                      <<pointsRef'[old + k - 1], pointsRef'[old + k]>>
             /\ redraws' = 0]_vars

\* a move carrying 2 coalesced samples has painted 2 segments, the second
\* starting where the first ends
C18_Witness ==
    /\ lastEv.kind = "move"
    /\ isDrawing
    /\ Len(session) = 2
    /\ Len(session[2]) = 2
    /\ Len(pointsRef) = 3
    /\ Len(surface) = 2
    /\ surface[1].pts = <<pointsRef[1], pointsRef[2]>>
    /\ surface[2].pts = <<pointsRef[2], pointsRef[3]>>
    /\ surface[1] # surface[2]

\* C19: between handlers the context's opacity is 1.0 and its compositing
\* mode source-over, and every path on the surface was painted with what its
\* own tool sets and the defaults otherwise: an erasing path with opacity 1.0,
\* every other path with source-over and its tool's opacity
C19_PaintStateIsResetBetweenPaints ==
    /\ globalAlpha = 10
    /\ globalCompositeOperation = "source-over"
    /\ \A i \in 1..Len(surface) :
          \/ surface[i].comp = "source-over" /\ surface[i].alpha \in {3, 8, 10}
          \/ surface[i].comp = "destination-out" /\ surface[i].alpha = 10

\* a repaint has painted a highlighter stroke and then an eraser stroke
C19_Witness ==
    /\ lastEv.kind = "up"
    /\ Mounted
    /\ Len(strokes) = 2
    /\ strokes[1].tool = "highlighter"
    /\ strokes[2].tool = "eraser"
    /\ Len(surface) = 2
    /\ surface[1].alpha = 3
    /\ surface[2].comp = "destination-out"

\* C20 as claimed: an up, cancel or leave of a mouse or stylus pointer that
\* ends a capture of 2 points or more, engaged while a transcription was
\* pending, commits those points as a stroke of the active note, the call
\* having settled meanwhile or not; and the step in which a call settles
\* leaves every committed list unchanged
C20_PendingCallLeavesCaptureAlone ==
    /\ [][/\ lastEv'.kind \in EndKinds
          /\ lastEv'.ptype # "touch"
          /\ engagedPending
          /\ isDrawing
          /\ Len(pointsRef) >= 2
          => /\ Committed(activeNoteId)
             /\ LastStroke(noteStrokes'[activeNoteId]).points = pointsRef]_vars
    /\ [][lastEv'.kind = "settle" => noteStrokes' = noteStrokes]_vars

\* C21 as claimed: the step in which a transcription call settles makes the
\* note's content what it was just before that step, followed by the
\* separator and the text returned; so text typed while the call was pending,
\* and the text of another call that settled meanwhile, stay in the content
C21_TextAppendedToCurrentContent ==
    [][lastEv'.kind = "settle" =>
          noteContent'[settled'.note] =
             noteContent[settled'.note] \o <<Separator, settled'.text>>]_vars

\* the pointer a point came from, among TwoPointerEvents
PointerOf(point) ==
    (CHOOSE e \in TwoPointerEvents : getCoordinates(e) = point).pointerType

\* C22 as claimed: the points of every committed stroke come from one
\* pointer; and while the engine is capturing one pointer's points, an event
\* of any kind from another mouse or stylus pointer leaves the buffer and
\* every committed list as they were
C22_OnePointerPerStroke ==
    /\ [](\A n \in NoteIds : \A i \in 1..Len(noteStrokes[n]) :
             \A j, k \in 1..Len(noteStrokes[n][i].points) :
                PointerOf(noteStrokes[n][i].points[j]) =
                   PointerOf(noteStrokes[n][i].points[k]))
    /\ [][/\ isDrawing
          /\ pointsRef # <<>>
          /\ lastEv'.kind \in PointerKinds
          /\ lastEv'.ptype \notin {PointerOf(pointsRef[1]), "touch"}
          => UNCHANGED <<pointsRef, noteStrokes>>]_vars

\* C23 as claimed: a stroke is appended only to the stroke list of the note
\* that was active when its capture was engaged, also when another note was
\* selected between the engagement and the release
C23_StrokeGoesToEngagedNote ==
    [][\A n \in NoteIds : Committed(n) => n = engagedNote]_vars

====
